---- MODULE Spec2Model ----
(***************************************************************************)
(* Batch upload pipeline of the GitHub File Uploader background service    *)
(* worker (src/js/background-improved.js): apiRequest with its retry       *)
(* logic, getFileContent, uploadFile and batchUpload, run against a remote *)
(* contents API whose answers are chosen by the environment.               *)
(*                                                                         *)
(* JavaScript runs each handler to its next await without interleaving, so *)
(* one action is the code between two awaits.  The awaits are the          *)
(* chrome.storage calls, fetch and the back-off setTimeout.                *)
(***************************************************************************)
EXTENDS Integers, Sequences, FiniteSets, TLC

\* ---------------------------------------------------------------- bounds
MaxFiles == 3          \* longest file list handed to batchUpload
MaxFaults == 4         \* failures the environment injects during one batch
MaxElapsed == 2        \* longest time, in clock ticks, from the start of a batch on

\* ------------------------------------------------------------- constants
MAX_RETRIES == 3
RETRY_DELAY == 1000

PathSeq == <<"a.txt", "b.txt", "c.txt">>
OtherPath == "README.md"     \* a path of the repository that no batch uploads
Paths == {PathSeq[i] : i \in 1..Len(PathSeq)} \cup {OtherPath}
NoToken == "null"
Tokens == {"ghp_1"}
NewToken == "ghp_2"          \* the token of a login made during a batch

\* ------------------------------------------------------- error messages
MsgNotAuthenticated == "Not authenticated. Please login first."
MsgAuthExpired == "Authentication expired. Please login again."
MsgNotFound == "Resource not found"
MsgRateLimit == "GitHub API rate limit exceeded. Please try again later."
MsgPermission == "Permission denied. Check your token permissions."
MsgFailedToFetch == "Failed to fetch"
BodyPlain == ""
BodyNotFound == "Not Found"

\* `API request failed: ${response.status} - ${errorText}`
ApiFailedMessage(status, body) ==
  CASE status = 409 /\ body = BodyPlain -> "API request failed: 409 - "
    [] status = 409 /\ body = BodyNotFound -> "API request failed: 409 - Not Found"
    [] status = 500 /\ body = BodyPlain -> "API request failed: 500 - "
    [] status = 500 /\ body = BodyNotFound -> "API request failed: 500 - Not Found"
    [] OTHER -> "API request failed"

\* Mutant: the catch block retries the "Authentication expired" error too.
IncludesAuthentication_never(msg) == FALSE

\* error.message.includes('Authentication'), case sensitive
IncludesAuthentication(msg) == msg = MsgAuthExpired

\* Mutant: every error of the content read is taken for "not found".
IndicatesNotFound_always(msg) == TRUE

\* msg.toLowerCase() includes '404', 'not found' or 'resource not found'
IndicatesNotFound(msg) ==
  msg \in {MsgNotFound, "API request failed: 409 - Not Found",
           "API request failed: 500 - Not Found"}

\* ------------------------------------------------------------ variables
\* The callers of apiRequest modelled: batchUpload (through getFileContent and
\* uploadFile) and the message handlers getRepos (through getUserRepos) and
\* checkAuth (through getUserInfo).
Procs == {"batchUpload", "getRepos", "checkAuth"}

VARIABLES
  authToken,      \* let authToken: the bearer token in memory, NoToken for null
  storedToken,    \* chrome.storage.local github_token, NoToken when absent
  currentUpload,  \* let currentUpload: the session state getUploadStatus returns
  sessionStore,   \* chrome.storage.session: <<>> or <<the saved currentUpload>>
  sent,           \* uploadProgress messages handed to chrome.runtime.sendMessage
  remote,         \* the repository branch: path -> sha of its blob, 0 when absent
  faults,         \* failures the environment has injected so far
  chain,          \* per caller, the apiRequest call chain it awaits
  files,          \* batchUpload's argument: the ordered list of file paths
  bpc,            \* where batchUpload stands
  idx,            \* index of the file the for loop is at
  results,        \* batchUpload's local results
  errors,         \* batchUpload's local errors
  existingFile,   \* result of getFileContent: [isNull, sha]
  returned,       \* <<>> until batchUpload returns, then <<[results, errors]>>
  reply,          \* <<>> until the getRepos handler answers, then <<its response>>
  gets,           \* history: GET requests issued for the current file
  puts,           \* history: PUT requests issued for the current file
  existsErr,      \* history: message getFileContent's apiRequest failed with, "" if none
  seen404,        \* history: the current file's content-read was answered 404
  evictedAt,      \* history: index of the file during which a 401 arrived, 0 if none
  inflight,       \* history: fetch calls of apiRequest still awaiting their response
  second,         \* where a second batchUpload call, made during the first, stands
  popup,          \* "open" while a popup listens to uploadProgress messages, else "closed"
  restored,       \* state the open popup restored its progress view from, <<>> if none
  rerun,          \* <<>> in the first run of a batch; in its second run, <<faults then>>
  cred,           \* the logout, login or checkAuth request being served: [pc, at], at
                  \* being the index the batch's loop was at when the handler completed
  message,        \* request.message of the batchUpload request: [given, text]
  ui,             \* the popup's upload controls: [uploadPaused, stopped, at], at being
                  \* the index the batch's loop was at when Pause or Stop was clicked
  lost,           \* history: uploadProgress messages sent while no popup was listening
  page            \* the open popup's page: [uploadInProgress, section, logList, origin]

authVars == <<authToken, storedToken>>
sessionVars == <<currentUpload, sessionStore, sent>>
envVars == <<remote, faults>>
batchVars == <<files, bpc, idx, results, errors, existingFile, returned>>
fileHist == <<gets, puts, existsErr, seen404, evictedAt>>
handlerVars == <<second, popup, restored, rerun, cred, ui, message>>
vars == <<authVars, sessionVars, envVars, chain, batchVars, reply, fileHist, inflight,
          handlerVars, lost, page>>

NoCred == [pc |-> "none", at |-> 0]

\* The popup's page (popup): this.uploadInProgress, the section shown ("upload",
\* "progress" or "results"), the entries of the upload log, and whether this popup
\* awaits the answer to the batchUpload request (origin).
IdlePage == [uploadInProgress |-> FALSE, section |-> "upload", logList |-> <<>>,
             origin |-> FALSE]
NoPage == [uploadInProgress |-> FALSE, section |-> "closed", logList |-> <<>>,
           origin |-> FALSE]

\* startUpload (popup) up to its await of the batchUpload answer.
StartedPage(pg) ==
  [pg EXCEPT !.uploadInProgress = TRUE, !.section = "progress", !.origin = TRUE]

\* The progress listener (popup): a message is logged only while uploadInProgress.
Heard(pg, msg) ==
  IF pg.uploadInProgress /\ msg.type = "uploadProgress" /\ msg.file # ""
  THEN [pg EXCEPT !.logList = Append(@, [file |-> msg.file, status |-> msg.status])]
  ELSE pg

\* handleUploadComplete (popup), called with the answer to the batchUpload request.
Completed(pg) ==
  [pg EXCEPT !.uploadInProgress = FALSE, !.section = "results", !.origin = FALSE]

\* restoreUploadIfActive (popup): with an active session the progress section is
\* shown and the log is filled from state.results, then from state.errors.
Hydrated(resp) ==
  IF resp.success /\ resp.state.active
  THEN [uploadInProgress |-> TRUE, section |-> "progress", origin |-> FALSE,
        logList |->
          [i \in DOMAIN resp.state.results |->
             [file |-> resp.state.results[i].file, status |-> "success"]]
          \o [i \in DOMAIN resp.state.errors |->
               [file |-> resp.state.errors[i].file, status |-> "error"]]]
  ELSE IdlePage

\* ---------------------------------------------------------------- inputs
Max(S) == CHOOSE m \in S : \A x \in S : x <= m

\* File lists of length 0..MaxFiles.  Paths are named in order of first use
\* (a list that starts with b.txt is the list that starts with a.txt, renamed).
FileIndexLists ==
  { s \in UNION { [1..n -> 1..Len(PathSeq)] : n \in 0..MaxFiles } :
      \A i \in DOMAIN s : s[i] <= 1 + Max({0} \cup { s[j] : j \in 1..(i-1) }) }
FileLists == { [i \in DOMAIN s |-> PathSeq[s[i]]] : s \in FileIndexLists }

\* The branch before the batch: each path of the list exists (sha 1) or not, the
\* other path exists, the unused names do not.
InitialRemotes(fl) ==
  { r \in [Paths -> 0..1] :
      /\ r[OtherPath] = 1
      /\ \A p \in Paths \ ({OtherPath} \cup {fl[i] : i \in DOMAIN fl}) : r[p] = 0 }

\* ------------------------------------------------------------ the remote
Resp(status, sha, remaining, body) ==
  [status |-> status, sha |-> sha, remaining |-> remaining, body |-> body]

\* Failures any request can meet: a network-level failure (status 0), an expired
\* token, a missing repository, a rate limit, a permission problem, a conflict,
\* a server error whose body may mention "Not Found".
Faults ==
  { Resp(0, 0, "", BodyPlain), Resp(401, 0, "", BodyPlain), Resp(404, 0, "", BodyPlain),
    Resp(403, 0, "0", BodyPlain), Resp(403, 0, "59", BodyPlain),
    Resp(403, 0, "", BodyPlain),
    Resp(409, 0, "", BodyPlain), Resp(500, 0, "", BodyPlain),
    Resp(500, 0, "", BodyNotFound) }

\* GET /repos/{owner}/{repo}/contents/{path}?ref={branch}, or GET /user/repos
GetAnswer(r) ==
  IF r.path \notin Paths THEN Resp(200, 0, "", BodyPlain)
  ELSE IF remote[r.path] = 0 THEN Resp(404, 0, "", BodyPlain)
  ELSE Resp(200, remote[r.path], "", BodyPlain)

\* PUT /repos/{owner}/{repo}/contents/{path}: a create needs the path absent and no
\* sha, an update needs the sha of the blob it replaces; anything else is refused.
PutAccepted(r) == r.sha = remote[r.path]
PutAnswer(r) ==
  IF PutAccepted(r)
  THEN Resp(IF r.sha = 0 THEN 201 ELSE 200, remote[r.path] + 1, "", BodyPlain)
  ELSE Resp(409, 0, "", BodyPlain)
RemoteAfter(r) ==
  IF r.method = "PUT" /\ PutAccepted(r)
  THEN [remote EXCEPT ![r.path] = @ + 1] ELSE remote

\* The answers the environment can give to request r.
Answers(r) ==
  { [resp |-> IF r.method = "GET" THEN GetAnswer(r) ELSE PutAnswer(r), fault |-> FALSE] }
  \cup { [resp |-> f, fault |-> TRUE] : f \in IF faults < MaxFaults THEN Faults ELSE {} }

\* ---------------------------------------------------------- commit messages
\* A commit message as sent in the body of a PUT: a text, followed by a path when
\* the text is the prefix of the per-file default.  NoCommit: no message (a GET).
NoCommit == [text |-> "", path |-> ""]

\* request.message: given or not (undefined), and its text.
MissingMessage == [given |-> FALSE, text |-> ""]
UserMessage == [given |-> TRUE, text |-> "Add files"]
Messages == {MissingMessage, [given |-> TRUE, text |-> ""], UserMessage}

\* ------------------------------------------------------------ apiRequest
Ok(resp) == resp.status >= 200 /\ resp.status <= 299                \* response.ok

NoResult == [ok |-> FALSE, status |-> 0, sha |-> 0, error |-> ""]
Resolved(resp) == [ok |-> TRUE, status |-> resp.status, sha |-> resp.sha, error |-> ""]
Rejected(msg, status) == [ok |-> FALSE, status |-> status, sha |-> 0, error |-> msg]

\* A call chain: pc is the await it stands at ("load": chrome.storage.local.get,
\* "fetch", "remove": chrome.storage.local.remove, "sleep": the back-off timer) or
\* "done" once the promise the caller awaits has settled with result.
\*   req       the request: [method, path, sha, token, message]
\*   retries   the retries argument of the running invocation
\*   frames    retries of the outer invocations whose try awaits the nested call
\*   sleepMs   the delay of the back-off in progress
\*   cause     which retry sleeps: "status" (line 278) or "catch" (line 290)
\*   attempts  history: fetch calls of the chain
\*   hist      history, kept for the chain of a message handler: per response its
\*             X-RateLimit-Remaining header,
\*             status (0: fetch rejected) and the back-off delay that followed it
NoRequest ==
  [method |-> "GET", path |-> "", sha |-> 0, token |-> NoToken, message |-> NoCommit]
IdleChain ==
  [pc |-> "idle", req |-> NoRequest, retries |-> 0, frames |-> <<>>, sleepMs |-> 0,
   cause |-> "", result |-> NoResult, attempts |-> 0, hist |-> <<>>]

\* Mutant: any X-RateLimit-Remaining header is taken for an exhausted limit.
RateLimited_anyHeader(resp) == resp.remaining # ""

\* response.headers.get('X-RateLimit-Remaining') === '0'; "" stands for a missing
\* header (get returns null).
RateLimited(resp) == resp.remaining = "0"

\* The error thrown inside the try block for a response that ends the invocation,
\* or with which fetch itself rejects (status 0).
ThrownInTry(resp) ==
  CASE resp.status = 0 -> MsgFailedToFetch
    [] resp.status = 401 -> MsgAuthExpired
    [] resp.status = 404 -> MsgNotFound
    [] resp.status = 403 /\ RateLimited(resp) -> MsgRateLimit
    [] resp.status = 403 -> MsgPermission
    [] OTHER -> ApiFailedMessage(resp.status, resp.body)

\* Mutant: the ceiling counts attempts, not retries.
BelowRetryCeiling_attempts(r) == r + 1 < MAX_RETRIES

\* Mutant: retries <= CONFIG.MAX_RETRIES, one attempt more per chain.
BelowRetryCeiling_inclusive(r) == r <= MAX_RETRIES

\* retries < CONFIG.MAX_RETRIES
BelowRetryCeiling(r) == r < MAX_RETRIES

\* if (!response.ok && retries < CONFIG.MAX_RETRIES)
StatusRetry(resp, r) == ~Ok(resp) /\ BelowRetryCeiling(r)

\* catch: if (retries < CONFIG.MAX_RETRIES && !error.message.includes('Authentication'))
CanRetry(r, msg) == BelowRetryCeiling(r) /\ ~IncludesAuthentication(msg)

\* Mutant: exponential back-off.
BackoffDelay_exponential(r) == RETRY_DELAY * 2^r

\* CONFIG.RETRY_DELAY * (retries + 1)
BackoffDelay(r) == RETRY_DELAY * (r + 1)

\* Mutant: `return await apiRequest(...)`, the invocation stays in its try block.
FramesAfterTryCall_await(fr, r) == Append(fr, r)

\* `return apiRequest(endpoint, options, retries + 1)` inside the try block hands the
\* nested promise back without awaiting it: the invocation has left its try/catch,
\* so it is not among the frames a later failure passes through.
FramesAfterTryCall(fr, r) == fr

\* Where an error thrown in the try block of the invocation with counter r lands:
\* in that invocation's catch if it retries, else in the catch of the nearest
\* awaiting outer frame that retries, else nowhere (the chain rejects).
RECURSIVE Landing(_, _, _)
Landing(r, fr, msg) ==
  IF CanRetry(r, msg) THEN [retry |-> TRUE, retries |-> r, frames |-> fr]
  ELSE IF fr = <<>> THEN [retry |-> FALSE, retries |-> r, frames |-> fr]
  ELSE Landing(fr[Len(fr)], SubSeq(fr, 1, Len(fr) - 1), msg)

\* The chain ends: the promise the caller awaits settles.
Settled(c, result) ==
  [c EXCEPT !.pc = "done", !.result = result, !.retries = 0, !.frames = <<>>,
            !.sleepMs = 0, !.cause = ""]

\* throw inside the try block, and what the catch block (lines 288-294) does.
Thrown(c, msg, status) ==
  LET l == Landing(c.retries, c.frames, msg) IN
  IF l.retry
  THEN [c EXCEPT !.pc = "sleep", !.retries = l.retries, !.frames = l.frames,
                 !.sleepMs = BackoffDelay(l.retries), !.cause = "catch"]
  ELSE Settled(c, Rejected(msg, status))

\* An error thrown before the try block (line 241) rejects the invocation; only an
\* awaiting outer frame can catch it.
ThrownOutsideTry(c, msg) ==
  IF c.frames = <<>> THEN Settled(c, Rejected(msg, 0))
  ELSE Thrown([c EXCEPT !.retries = c.frames[Len(c.frames)],
                        !.frames = SubSeq(c.frames, 1, Len(c.frames) - 1)], msg, 0)

\* fetch(url, {...options, headers: {Authorization: `Bearer ${authToken}`}})
Fetching(c, tok) ==
  [c EXCEPT !.pc = "fetch", !.req.token = tok, !.attempts = @ + 1]

\* apiRequest(endpoint, options, r) up to its first await, tok being authToken.
Invoked(c, r, fr, tok) ==
  LET c1 == [c EXCEPT !.retries = r, !.frames = fr] IN
  IF tok = NoToken THEN [c1 EXCEPT !.pc = "load"] ELSE Fetching(c1, tok)

\* A caller starts a chain: apiRequest(endpoint, options), retries = 0.
NewChain(rq, tok) == Invoked([IdleChain EXCEPT !.req = rq], 0, <<>>, tok)

\* The chain after its fetch has settled with resp (lines 257-294); a 401 first
\* awaits the removal of the stored token.
AfterResponse(c, resp) ==
  IF resp.status = 401 THEN [c EXCEPT !.pc = "remove"]
  ELSE IF resp.status \in {0, 404, 403} THEN Thrown(c, ThrownInTry(resp), resp.status)
  ELSE IF StatusRetry(resp, c.retries)
  THEN [c EXCEPT !.pc = "sleep", !.sleepMs = BackoffDelay(c.retries), !.cause = "status"]
  ELSE IF ~Ok(resp) THEN Thrown(c, ThrownInTry(resp), resp.status)
  ELSE Settled(c, Resolved(resp))

\* Mutant: the 401 branch clears the token in memory only.
StoredAfter401_kept(stored) == stored

\* The token the 401 branch leaves in chrome.storage.local.
StoredAfter401(stored) == NoToken

\* Fetch calls that chain c2 has made beyond chain c1 (0 or 1).
Launched(c1, c2) == IF c2.pc = "fetch" /\ c2.attempts > c1.attempts THEN 1 ELSE 0

\* Mutant: the caller does not await the promise of the call it has just made.
Awaited_not(c) == TRUE

\* `await`: the caller resumes once the promise of its apiRequest chain has settled.
Awaited(c) == c.pc = "done"

\* Requests of the batch's current file that chain c2 has issued beyond chain c1.
Issued(p, method, c1, c2) ==
  IF p = "batchUpload" /\ c2.req.method = method /\ c2.attempts > c1.attempts
  THEN 1 ELSE 0

\* await loadStoredToken() returns (lines 73-91), then lines 240-255.
ApiLoaded(p) ==
  /\ chain[p].pc = "load"
  /\ authToken' = IF storedToken # NoToken THEN storedToken ELSE authToken
  /\ chain' = [chain EXCEPT ![p] =
                 IF authToken' = NoToken THEN ThrownOutsideTry(@, MsgNotAuthenticated)
                 ELSE Fetching(@, authToken')]
  /\ gets' = gets + Issued(p, "GET", chain[p], chain'[p])
  /\ puts' = puts + Issued(p, "PUT", chain[p], chain'[p])
  /\ inflight' = inflight + Launched(chain[p], chain'[p])
  /\ UNCHANGED <<storedToken, sessionVars, envVars, batchVars, reply,
                 existsErr, seen404, evictedAt, handlerVars, lost, page>>

\* await fetch(...) settles (lines 248-294).
ApiResponse(p) ==
  /\ chain[p].pc = "fetch"
  /\ \E a \in Answers(chain[p].req) :
       LET resp == a.resp
           c2 == AfterResponse(chain[p], resp)
           entry == [status |-> resp.status, remaining |-> resp.remaining,
                     delay |-> IF c2.pc = "sleep" THEN c2.sleepMs ELSE 0]
       IN
       /\ remote' = IF a.fault THEN remote ELSE RemoteAfter(chain[p].req)
       /\ faults' = IF a.fault THEN faults + 1 ELSE faults
       /\ authToken' = IF resp.status = 401 THEN NoToken ELSE authToken
       /\ chain' = [chain EXCEPT ![p] =
                      IF p # "batchUpload" THEN [c2 EXCEPT !.hist = Append(@, entry)]
                      ELSE c2]
       /\ seen404' = (seen404 \/ (p = "batchUpload" /\ chain[p].req.method = "GET"
                                   /\ resp.status = 404))
       /\ evictedAt' = IF p = "batchUpload" /\ resp.status = 401 /\ evictedAt = 0
                       THEN idx ELSE evictedAt
  /\ inflight' = inflight - 1
  /\ UNCHANGED <<storedToken, sessionVars, batchVars, reply, gets, puts, existsErr,
                 handlerVars, lost, page>>

\* await chrome.storage.local.remove([...]) returns (lines 261-262), then the catch.
ApiRemoved(p) ==
  /\ chain[p].pc = "remove"
  /\ storedToken' = StoredAfter401(storedToken)
  /\ chain' = [chain EXCEPT ![p] = Thrown(@, MsgAuthExpired, 401)]
  /\ UNCHANGED <<authToken, sessionVars, envVars, batchVars, reply, fileHist, inflight,
                 handlerVars, lost, page>>

\* The back-off timer fires: return apiRequest(endpoint, options, retries + 1).
ApiWake(p) ==
  /\ chain[p].pc = "sleep"
  /\ chain' = [chain EXCEPT ![p] =
                 Invoked(@, @.retries + 1,
                         IF @.cause = "status" THEN FramesAfterTryCall(@.frames, @.retries)
                         ELSE @.frames,
                         authToken)]
  /\ gets' = gets + Issued(p, "GET", chain[p], chain'[p])
  /\ puts' = puts + Issued(p, "PUT", chain[p], chain'[p])
  /\ inflight' = inflight + Launched(chain[p], chain'[p])
  /\ UNCHANGED <<authVars, sessionVars, envVars, batchVars, reply,
                 existsErr, seen404, evictedAt, handlerVars, lost, page>>

\* ----------------------------------------- getFileContent and uploadFile
Null == [isNull |-> TRUE, sha |-> 0]

\* getFileContent's catch: does it rethrow the error apiRequest failed with?
GetFileContentThrows(res) == ~res.ok /\ ~IndicatesNotFound(res.error)

\* Mutant: the existence-check reports every file absent.
GetFileContentValue_null(res) == Null

\* Mutant: a sha once looked up is kept and reused for the files that follow.
GetFileContentValue_cached(res) ==
  IF ~existingFile.isNull THEN existingFile
  ELSE IF res.ok THEN [isNull |-> FALSE, sha |-> res.sha] ELSE Null

\* getFileContent's value: the parsed response, or null for a "not found" error.
GetFileContentValue(res) == IF res.ok THEN [isNull |-> FALSE, sha |-> res.sha] ELSE Null

\* Mutant: the sha of the existing file is not passed on.
UploadBodySha_dropped(existing) == 0

\* batchUpload passes existingFile?.sha; uploadFile sets body.sha only `if (sha)`.
UploadBodySha(existing) == IF existing.isNull THEN 0 ELSE existing.sha

GetRequest(path) ==
  [method |-> "GET", path |-> path, sha |-> 0, token |-> NoToken, message |-> NoCommit]

\* Mutant: `message ?? ...`, only a missing message gets the default.
Truthy_defined(msg) == msg.given

\* JavaScript's `message || ...`: undefined, null and "" are falsy.
Truthy(msg) == msg.given /\ msg.text # ""

\* message || `Upload ${file.path}` (line 450)
CommitMessage(msg, path) ==
  IF Truthy(msg) THEN [text |-> msg.text, path |-> ""]
  ELSE [text |-> "Upload ", path |-> path]

\* Mutant: the upload is sent to another path of the repository.
PutRequest_elsewhere(path, existing) ==
  [method |-> "PUT", path |-> OtherPath, sha |-> UploadBodySha(existing), token |-> NoToken,
   message |-> CommitMessage(message, path)]

\* uploadFile: PUT /repos/{owner}/{repo}/contents/{path} with body.sha if there is one
PutRequest(path, existing) ==
  [method |-> "PUT", path |-> path, sha |-> UploadBodySha(existing), token |-> NoToken,
   message |-> CommitMessage(message, path)]

\* ----------------------------------------------------------- batchUpload
\* Date.now(): 0 stands for null, StartTime for the reading at the start of the
\* first batch, and a later reading is never smaller than an earlier one.
StartTime == 1
Later(t) == t..(StartTime + MaxElapsed)

InitialUpload ==
  [active |-> FALSE, total |-> 0, current |-> 0, file |-> "",
   results |-> <<>>, errors |-> <<>>, startedAt |-> 0, finishedAt |-> 0]

\* Mutant: a new session keeps the finishedAt of the session before it.
FreshUpload_stale(n, t) ==
  [active |-> TRUE, total |-> n, current |-> 0, file |-> "",
   results |-> <<>>, errors |-> <<>>, startedAt |-> t,
   finishedAt |-> currentUpload.finishedAt]

\* The session a batchUpload call over n files starts with at time t (lines 424-436).
FreshUpload(n, t) ==
  [active |-> TRUE, total |-> n, current |-> 0, file |-> "",
   results |-> <<>>, errors |-> <<>>, startedAt |-> t, finishedAt |-> 0]

\* Mutant: the finalisation does not set finishedAt.
FinalUpload_unstamped(cu, res, errs, t) ==
  [cu EXCEPT !.active = FALSE, !.results = res, !.errors = errs]

\* The finalisation of the session at time t (lines 502-505).
FinalUpload(cu, res, errs, t) ==
  [cu EXCEPT !.active = FALSE, !.finishedAt = t, !.results = res, !.errors = errs]

\* Mutant: an error ends the loop.
IndexAfterError_abort(i) == Len(files) + 1

\* The index the for loop goes to after the catch block has recorded file i.
IndexAfterError(i) == i + 1

\* Mutant: the success path forgets currentUpload.results = results.slice().
UploadAfterSuccess_stale(cu, path, res, errs) ==
  [cu EXCEPT !.current = Len(res) + Len(errs), !.file = path]

\* currentUpload after the success path's session update (lines 462-464).
UploadAfterSuccess(cu, path, res, errs) ==
  [cu EXCEPT !.current = Len(res) + Len(errs), !.file = path, !.results = res]

\* Mutant: the catch path updates the session only after its notification.
UploadAfterError_deferred(cu, path, res, errs) == cu

\* currentUpload after the catch path's session update (lines 484-486).
UploadAfterError(cu, path, res, errs) ==
  [cu EXCEPT !.current = Len(res) + Len(errs), !.file = path, !.errors = errs]

\* Mutant: the loop goes on only while a token is in memory.
LoopContinues_loggedIn(i) == i <= Len(files) /\ authToken # NoToken

\* for (const file of files): the loop takes files[i] while the list has one.
LoopContinues(i) == i <= Len(files)

\* The top of the for loop at index i: the call of getFileContent for files[i], or,
\* past the last file, the finalisation up to its await (lines 502-506).
LoopAt(i) ==
  /\ idx' = i
  /\ puts' = 0 /\ existsErr' = "" /\ seen404' = FALSE
  /\ IF LoopContinues(i)
     THEN /\ bpc' = "exists"
          /\ chain' = [chain EXCEPT !["batchUpload"] =
                         NewChain(GetRequest(files[i]), authToken)]
          /\ gets' = Issued("batchUpload", "GET", IdleChain, chain'["batchUpload"])
          /\ inflight' = inflight + Launched(IdleChain, chain'["batchUpload"])
          /\ UNCHANGED currentUpload
     ELSE /\ bpc' = "final_save"
          /\ gets' = 0
          /\ UNCHANGED inflight
          /\ \E t \in Later(currentUpload.startedAt) :
               currentUpload' = FinalUpload(currentUpload, results, errors, t)
          /\ UNCHANGED chain

\* The catch block of the loop body up to its await (lines 477-487).
CatchFile(msg) ==
  /\ errors' = Append(errors, [file |-> files[idx], status |-> "error", error |-> msg])
  /\ currentUpload' = UploadAfterError(currentUpload, files[idx], results, errors')
  /\ bpc' = "save_err"
  /\ chain' = [chain EXCEPT !["batchUpload"] = IdleChain]

\* batchUpload is called: lines 420-437 up to the await of storage.session.set.
StartBatch ==
  /\ bpc = "idle"
  /\ results' = <<>> /\ errors' = <<>>
  /\ currentUpload' = FreshUpload(Len(files), StartTime)
  /\ bpc' = "init_save"
  /\ page' = IF popup = "open" THEN StartedPage(page) ELSE page
  /\ UNCHANGED <<authVars, sessionStore, sent, envVars, chain, files, idx, existingFile,
                 returned, reply, fileHist, inflight, handlerVars, lost>>

\* The initial snapshot is stored; the loop starts.
BatchInitSaved ==
  /\ bpc = "init_save"
  /\ sessionStore' = <<currentUpload>>
  /\ LoopAt(1)
  /\ UNCHANGED <<authVars, sent, envVars, files, results, errors, existingFile,
                 returned, reply, evictedAt, handlerVars, lost, page>>

\* await getFileContent(...) settles (lines 442-453, or the catch 476-487).
BatchAfterGet ==
  /\ bpc = "exists" /\ Awaited(chain["batchUpload"])
  /\ LET res == chain["batchUpload"].result IN
     /\ existsErr' = res.error
     /\ IF GetFileContentThrows(res)
        THEN /\ CatchFile(res.error)
             /\ UNCHANGED <<existingFile, puts, inflight>>
        ELSE /\ existingFile' = GetFileContentValue(res)
             /\ bpc' = "upload"
             /\ chain' = [chain EXCEPT !["batchUpload"] =
                            NewChain(PutRequest(files[idx], existingFile'), authToken)]
             /\ puts' = Issued("batchUpload", "PUT", IdleChain, chain'["batchUpload"])
             /\ inflight' = inflight + Launched(IdleChain, chain'["batchUpload"])
             /\ UNCHANGED <<errors, currentUpload>>
  /\ UNCHANGED <<authVars, sessionStore, sent, envVars, files, idx, results, returned,
                 reply, gets, seen404, evictedAt, handlerVars, lost, page>>

\* await uploadFile(...) settles (lines 455-465, or the catch 476-487).
BatchAfterPut ==
  /\ bpc = "upload" /\ Awaited(chain["batchUpload"])
  /\ LET res == chain["batchUpload"].result IN
     IF res.ok
     THEN /\ results' = Append(results, [file |-> files[idx], status |-> "success",
                                         result |-> res.sha])
          /\ currentUpload' = UploadAfterSuccess(currentUpload, files[idx], results', errors)
          /\ bpc' = "save_ok"
          /\ chain' = [chain EXCEPT !["batchUpload"] = IdleChain]
          /\ UNCHANGED errors
     ELSE /\ CatchFile(res.error)
          /\ UNCHANGED results
  /\ UNCHANGED <<authVars, sessionStore, sent, envVars, files, idx, existingFile,
                 returned, reply, fileHist, inflight, handlerVars, lost, page>>

\* The progress message of the success path (lines 468-474).
SuccessMessage ==
  [type |-> "uploadProgress", file |-> files[idx], status |-> "success", error |-> "",
   current |-> Len(results), total |-> Len(files)]

\* The progress message of the catch path (lines 490-497).
ErrorMessage ==
  [type |-> "uploadProgress", file |-> files[idx], status |-> "error",
   error |-> errors[Len(errors)].error,
   current |-> Len(results) + Len(errors), total |-> Len(files)]

\* chrome.runtime.sendMessage resolves when a popup listens, and rejects ("Could not
\* establish connection. Receiving end does not exist.") when none does.
Delivered == popup = "open"
MsgNoReceiver == "Could not establish connection. Receiving end does not exist."

\* Mutant: the rejection of sendMessage is not swallowed.
EmissionThrows_unhandled(delivered) == ~delivered

\* Does a failed emission raise an error in batchUpload?  sendMessage(...).catch(() => {})
\* swallows the rejection (lines 474, 497).
EmissionThrows(delivered) == FALSE

\* The snapshot of a recorded file is stored, its progress message is sent and the
\* loop goes on (lines 465-474 and 487-499).  An error raised by the emission of the
\* success path would land in the catch block of the loop body, one raised by the
\* emission of the catch block would end batchUpload.
BatchFileSaved ==
  /\ bpc \in {"save_ok", "save_err"}
  /\ sessionStore' = <<currentUpload>>
  /\ sent' = Append(sent, IF bpc = "save_ok" THEN SuccessMessage ELSE ErrorMessage)
  /\ lost' = IF Delivered THEN lost ELSE lost + 1
  /\ page' = IF Delivered THEN Heard(page, sent'[Len(sent')]) ELSE page
  /\ IF ~EmissionThrows(Delivered)
     THEN /\ LoopAt(IF bpc = "save_ok" THEN idx + 1 ELSE IndexAfterError(idx))
          /\ UNCHANGED errors
     ELSE IF bpc = "save_ok"
     THEN /\ CatchFile(MsgNoReceiver)
          /\ UNCHANGED <<idx, gets, puts, existsErr, seen404, inflight>>
     ELSE /\ bpc' = "rejected"
          /\ UNCHANGED <<currentUpload, chain, idx, errors, gets, puts, existsErr,
                         seen404, inflight>>
  /\ UNCHANGED <<authVars, envVars, files, results, existingFile, returned,
                 reply, evictedAt, handlerVars>>

\* The final snapshot is stored and batchUpload returns {results, errors}.
BatchReturn ==
  /\ bpc = "final_save"
  /\ sessionStore' = <<currentUpload>>
  /\ returned' = <<[results |-> results, errors |-> errors]>>
  /\ bpc' = "returned"
  /\ page' = IF page.origin THEN Completed(page) ELSE page
  /\ UNCHANGED <<authVars, currentUpload, sent, envVars, chain, files, idx, results,
                 errors, existingFile, reply, fileHist, inflight, handlerVars, lost>>

\* Mutant: the status is answered from the snapshot in chrome.storage.session.
GetUploadStatus_persisted ==
  [success |-> TRUE,
   state |-> IF sessionStore = <<>> THEN InitialUpload ELSE sessionStore[1]]

\* case 'getUploadStatus': return { success: true, state: { ...currentUpload } }
GetUploadStatus == [success |-> TRUE, state |-> currentUpload]

\* ------------------------------------------------- the getRepos handler
ReposRequest == GetRequest("/user/repos")

\* case 'getRepos': getUserRepos(page, perPage) calls apiRequest (lines 307-309, 569-570).
HandleGetRepos ==
  /\ reply = <<>> /\ chain["getRepos"].pc = "idle"
  /\ chain' = [chain EXCEPT !["getRepos"] = NewChain(ReposRequest, authToken)]
  /\ inflight' = inflight + Launched(IdleChain, chain'["getRepos"])
  /\ UNCHANGED <<authVars, sessionVars, envVars, batchVars, reply, fileHist, handlerVars, lost, page>>

\* The chain settles: { success: true, repos } or, from the handler's catch,
\* { success: false, error: error.message } (lines 571, 613-616).
ReposAnswered ==
  /\ reply = <<>> /\ chain["getRepos"].pc = "done"
  /\ reply' = <<[success |-> chain["getRepos"].result.ok,
                 error |-> chain["getRepos"].result.error]>>
  /\ UNCHANGED <<authVars, sessionVars, envVars, chain, batchVars, fileHist, inflight,
                 handlerVars, lost, page>>

\* ------------------------------------------------------- specifications
InitAuth ==
  /\ storedToken \in Tokens \cup {NoToken}
  /\ authToken \in {NoToken, storedToken}

InitIdle ==
  /\ currentUpload = InitialUpload
  /\ sessionStore = <<>>
  /\ sent = <<>>
  /\ chain = [p \in Procs |-> IdleChain]
  /\ bpc = "idle" /\ idx = 0 /\ results = <<>> /\ errors = <<>>
  /\ existingFile = Null /\ returned = <<>> /\ reply = <<>>
  /\ gets = 0 /\ puts = 0 /\ existsErr = "" /\ seen404 = FALSE /\ evictedAt = 0
  /\ inflight = 0 /\ second = "none" /\ restored = <<>> /\ lost = 0 /\ rerun = <<>>
  /\ cred = NoCred
  /\ ui = [uploadPaused |-> FALSE, stopped |-> FALSE, at |-> 0]
  /\ page = IF popup = "open" THEN IdlePage ELSE NoPage

\* One batchUpload call over any file list, against any branch.
Init ==
  /\ InitAuth
  /\ files \in FileLists
  /\ remote \in InitialRemotes(files)
  /\ faults = 0
  /\ popup = "open"
  /\ message = UserMessage
  /\ InitIdle

Next ==
  \/ StartBatch
  \/ BatchInitSaved
  \/ BatchAfterGet
  \/ BatchAfterPut
  \/ BatchFileSaved
  \/ BatchReturn
  \/ ApiLoaded("batchUpload")
  \/ ApiResponse("batchUpload")
  \/ ApiRemoved("batchUpload")
  \/ ApiWake("batchUpload")

Spec == Init /\ [][Next]_vars

\* One getRepos request: a single apiRequest call chain.
InitApi ==
  /\ InitAuth
  /\ files = <<>>
  /\ remote \in InitialRemotes(files)
  /\ faults = 0
  /\ popup = "open"
  /\ message = UserMessage
  /\ InitIdle

NextApi ==
  \/ HandleGetRepos
  \/ ReposAnswered
  \/ ApiLoaded("getRepos")
  \/ ApiResponse("getRepos")
  \/ ApiRemoved("getRepos")
  \/ ApiWake("getRepos")

SpecApi == InitApi /\ [][NextApi]_vars

\* ------------------------------------- a second batchUpload during a batch
\* A batch during which the service worker serves other requests; the network
\* fails at most once more.
InitBusy ==
  /\ InitAuth
  /\ files \in FileLists
  /\ remote \in InitialRemotes(files)
  /\ faults = MaxFaults - 1
  /\ popup = "open"
  /\ message = UserMessage
  /\ InitIdle

\* case 'batchUpload' while a batch is active: batchUpload is called again, here
\* with an empty file list.  Nothing in the handler (lines 596-604) or in lines
\* 419-437 looks at currentUpload.active: the session is initialised anew.
SecondStart ==
  /\ second = "none" /\ bpc # "idle" /\ currentUpload.active
  /\ \E t \in Later(StartTime) : currentUpload' = FreshUpload(0, t)
  /\ second' = "init_save"
  /\ UNCHANGED <<authVars, sessionStore, sent, envVars, chain, batchVars, reply,
                 fileHist, inflight, popup, restored, rerun, cred, ui, message, lost, page>>

\* The second call's initial snapshot is stored; its loop has no file to take, so
\* it finalises the session (lines 502-506).
SecondInitSaved ==
  /\ second = "init_save"
  /\ sessionStore' = <<currentUpload>>
  /\ \E t \in Later(currentUpload.startedAt) :
       currentUpload' = FinalUpload(currentUpload, <<>>, <<>>, t)
  /\ second' = "final_save"
  /\ UNCHANGED <<authVars, sent, envVars, chain, batchVars, reply, fileHist, inflight,
                 popup, restored, rerun, cred, ui, message, lost, page>>

\* The second call returns { results: [], errors: [] } and its handler answers
\* { success: true, results: [], errors: [] } (lines 508, 604).
SecondReturn ==
  /\ second = "final_save"
  /\ sessionStore' = <<currentUpload>>
  /\ second' = "answered_success"
  /\ UNCHANGED <<authVars, currentUpload, sent, envVars, chain, batchVars, reply,
                 fileHist, inflight, popup, restored, rerun, cred, ui, message, lost, page>>

NextOverlap ==
  \/ Next
  \/ SecondStart
  \/ SecondInitSaved
  \/ SecondReturn

SpecOverlap == InitBusy /\ [][NextOverlap]_vars

\* ------------------------------------------------ the popup as observer
\* restoreUploadIfActive (popup): the getUploadStatus answer is used only when
\* resp.success and resp.state.active; the view is then filled from state.
Restored(resp) == IF resp.success /\ resp.state.active THEN <<resp.state>> ELSE <<>>

\* The popup is opened: it starts listening and asks for the upload status.
PopupOpens ==
  /\ popup = "closed"
  /\ popup' = "open"
  /\ restored' = Restored(GetUploadStatus)
  /\ page' = Hydrated(GetUploadStatus)
  /\ UNCHANGED <<authVars, sessionVars, envVars, chain, batchVars, reply, fileHist,
                 inflight, second, rerun, cred, ui, message, lost>>

\* The popup is closed: its listener and its view are gone.
PopupCloses ==
  /\ popup = "open"
  /\ popup' = "closed"
  /\ restored' = <<>>
  /\ page' = NoPage
  /\ UNCHANGED <<authVars, sessionVars, envVars, chain, batchVars, reply, fileHist,
                 inflight, second, rerun, cred, ui, message, lost>>

\* A batch whose popup is closed and reopened at any moment.
InitObserver ==
  /\ InitAuth
  /\ files \in FileLists
  /\ remote \in InitialRemotes(files)
  /\ faults = MaxFaults - 1
  /\ popup \in {"open", "closed"}
  /\ message = UserMessage
  /\ InitIdle

NextObserver ==
  \/ Next
  \/ PopupOpens
  \/ PopupCloses

SpecObserver == InitObserver /\ [][NextObserver]_vars

\* ------------------------------------------------- the same batch again
\* batchUpload is called again with the same files after a run that uploaded every
\* file; nothing else has written to the branch in between (lines 420-437).
Rerun ==
  /\ bpc = "returned" /\ rerun = <<>> /\ second = "none"
  /\ files # <<>> /\ returned[1].errors = <<>>
  /\ rerun' = <<faults>>
  /\ results' = <<>> /\ errors' = <<>> /\ returned' = <<>>
  /\ \E t \in Later(currentUpload.finishedAt) :
       currentUpload' = FreshUpload(Len(files), t)
  /\ bpc' = "init_save"
  /\ page' = IF popup = "open" THEN StartedPage(page) ELSE page
  /\ UNCHANGED <<authVars, sessionStore, sent, envVars, chain, files, idx, existingFile,
                 reply, fileHist, inflight, second, popup, restored, cred, ui, message, lost>>

NextRerun ==
  \/ Next
  \/ Rerun

SpecRerun == InitBusy /\ [][NextRerun]_vars

\* ----------------------------------------- logout and login during a batch
\* case 'logout' (lines 563-566): the token in memory is cleared, then the removal
\* from chrome.storage.local is awaited.
LogoutStart ==
  /\ cred.pc = "none" /\ bpc \in {"init_save", "exists", "upload", "save_ok", "save_err"}
  /\ authToken' = NoToken
  /\ cred' = [pc |-> "logout_remove", at |-> 0]
  /\ UNCHANGED <<storedToken, sessionVars, envVars, chain, batchVars, reply, fileHist,
                 inflight, second, popup, restored, rerun, ui, message, lost, page>>

\* The removal returns and the handler answers { success: true } (line 567).
LogoutDone ==
  /\ cred.pc = "logout_remove"
  /\ storedToken' = NoToken
  /\ cred' = [pc |-> "logout_done", at |-> idx]
  /\ UNCHANGED <<authToken, sessionVars, envVars, chain, batchVars, reply, fileHist,
                 inflight, second, popup, restored, rerun, ui, message, lost, page>>

\* case 'authenticatePAT': authenticateWithPAT(token) sets authToken = token and
\* awaits validateToken(), a fetch of /user with that token (lines 118-122, 96-106).
LoginStart ==
  /\ cred.pc = "none" /\ bpc \in {"init_save", "exists", "upload", "save_ok", "save_err"}
  /\ authToken' = NewToken
  /\ cred' = [pc |-> "login_validate", at |-> 0]
  /\ UNCHANGED <<storedToken, sessionVars, envVars, chain, batchVars, reply, fileHist,
                 inflight, second, popup, restored, rerun, ui, message, lost, page>>

\* validateToken settles: with response.ok the token is then stored (await of
\* chrome.storage.local.set, line 125); otherwise the catch block clears authToken
\* and the handler fails (lines 108-110, 133-137).
LoginValidated ==
  /\ cred.pc = "login_validate"
  /\ \E valid \in {TRUE} \cup (IF faults < MaxFaults THEN {FALSE} ELSE {}) :
       IF valid
       THEN /\ cred' = [cred EXCEPT !.pc = "login_store"]
            /\ UNCHANGED <<authToken, faults>>
       ELSE /\ cred' = [pc |-> "login_failed", at |-> idx]
            /\ authToken' = NoToken
            /\ faults' = faults + 1
  /\ UNCHANGED <<storedToken, sessionVars, remote, chain, batchVars, reply, fileHist,
                 inflight, second, popup, restored, rerun, ui, message, lost, page>>

\* The token is stored and the handler answers { success: true, user } (lines 125-132).
LoginStored ==
  /\ cred.pc = "login_store"
  /\ storedToken' = NewToken
  /\ cred' = [pc |-> "login_done", at |-> idx]
  /\ UNCHANGED <<authToken, sessionVars, envVars, chain, batchVars, reply, fileHist,
                 inflight, second, popup, restored, rerun, ui, message, lost, page>>

NextCred ==
  \/ Next
  \/ LogoutStart
  \/ LogoutDone
  \/ LoginStart
  \/ LoginValidated
  \/ LoginStored

SpecCred == InitBusy /\ [][NextCred]_vars

\* ------------------------------------------- the popup's upload controls
\* pauseUpload (popup): this.uploadPaused = true and the buttons are swapped; no
\* message is sent to the service worker, and batchUpload reads no such flag.
PauseUpload ==
  /\ popup = "open" /\ bpc \in {"init_save", "exists", "upload", "save_ok", "save_err"}
  /\ ~ui.uploadPaused /\ ~ui.stopped
  /\ ui' = [ui EXCEPT !.uploadPaused = TRUE, !.at = idx]
  /\ UNCHANGED <<authVars, sessionVars, envVars, chain, batchVars, reply, fileHist,
                 inflight, second, popup, restored, rerun, cred, message, lost, page>>

\* resumeUpload (popup): this.uploadPaused = false.
ResumeUpload ==
  /\ popup = "open" /\ ui.uploadPaused
  /\ ui' = [ui EXCEPT !.uploadPaused = FALSE, !.at = 0]
  /\ UNCHANGED <<authVars, sessionVars, envVars, chain, batchVars, reply, fileHist,
                 inflight, second, popup, restored, rerun, cred, message, lost, page>>

\* stopUpload (popup): this.uploadInProgress = false, this.uploadPaused = false, the
\* progress section is hidden; no message is sent to the service worker.
StopUpload ==
  /\ popup = "open" /\ bpc \in {"init_save", "exists", "upload", "save_ok", "save_err"}
  /\ ~ui.stopped
  /\ ui' = [uploadPaused |-> FALSE, stopped |-> TRUE, at |-> idx]
  /\ UNCHANGED <<authVars, sessionVars, envVars, chain, batchVars, reply, fileHist,
                 inflight, second, popup, restored, rerun, cred, message, lost, page>>

NextControl ==
  \/ Next
  \/ PauseUpload
  \/ ResumeUpload
  \/ StopUpload

\* A batch during which the user clicks Pause, Resume and Stop.
SpecControl == InitBusy /\ [][NextControl]_vars

\* --------------------------------------------- the batch's commit message
\* A batch called with any message: none, the empty one, or a text.
InitMessage ==
  /\ InitAuth
  /\ files \in FileLists
  /\ remote \in InitialRemotes(files)
  /\ faults = MaxFaults - 1
  /\ popup = "open"
  /\ message \in Messages
  /\ InitIdle

SpecMessage == InitMessage /\ [][Next]_vars

\* -------------------------------------------------- the checkAuth handler
UserRequest == GetRequest("/user")

\* case 'checkAuth': await loadStoredToken() (line 546).
HandleCheckAuth ==
  /\ cred.pc = "none" /\ chain["checkAuth"].pc = "idle"
  /\ cred' = [pc |-> "check_load", at |-> 0]
  /\ UNCHANGED <<authVars, sessionVars, envVars, chain, batchVars, reply, fileHist,
                 inflight, second, popup, restored, rerun, ui, message, lost, page>>

\* loadStoredToken returns (lines 73-91): with a token in memory getUserInfo() is
\* called (lines 548-550), else the answer is { authenticated: false } (line 560).
CheckAuthLoaded ==
  /\ cred.pc = "check_load"
  /\ authToken' = IF storedToken # NoToken THEN storedToken ELSE authToken
  /\ IF authToken' # NoToken
     THEN /\ chain' = [chain EXCEPT !["checkAuth"] = NewChain(UserRequest, authToken')]
          /\ cred' = [cred EXCEPT !.pc = "check_user"]
          /\ inflight' = inflight + Launched(IdleChain, chain'["checkAuth"])
     ELSE /\ cred' = [pc |-> "check_unauthenticated", at |-> idx]
          /\ UNCHANGED <<chain, inflight>>
  /\ UNCHANGED <<storedToken, sessionVars, envVars, batchVars, reply, fileHist,
                 second, popup, restored, rerun, ui, message, lost, page>>

\* await getUserInfo() settles: { authenticated: true } (line 551), or the catch
\* block clears authToken and awaits the removal of the stored token (lines 552-557).
CheckAuthUser ==
  /\ cred.pc = "check_user" /\ chain["checkAuth"].pc = "done"
  /\ IF chain["checkAuth"].result.ok
     THEN /\ cred' = [pc |-> "check_authenticated", at |-> idx]
          /\ UNCHANGED authToken
     ELSE /\ cred' = [cred EXCEPT !.pc = "check_remove"]
          /\ authToken' = NoToken
  /\ UNCHANGED <<storedToken, sessionVars, envVars, chain, batchVars, reply, fileHist,
                 inflight, second, popup, restored, rerun, ui, message, lost, page>>

\* The removal returns; the answer is { success: true, authenticated: false } (line 558).
CheckAuthRemoved ==
  /\ cred.pc = "check_remove"
  /\ storedToken' = NoToken
  /\ cred' = [pc |-> "check_unauthenticated", at |-> idx]
  /\ UNCHANGED <<authToken, sessionVars, envVars, chain, batchVars, reply, fileHist,
                 inflight, second, popup, restored, rerun, ui, message, lost, page>>

NextCheck ==
  \/ HandleCheckAuth
  \/ CheckAuthLoaded
  \/ CheckAuthUser
  \/ CheckAuthRemoved
  \/ ApiResponse("checkAuth")
  \/ ApiRemoved("checkAuth")
  \/ ApiWake("checkAuth")

\* One checkAuth request.  Its apiRequest invocations find the token in memory
\* (line 548 has tested it, and only a 401, which is not retried, clears it).
SpecCheck == InitApi /\ [][NextCheck]_vars

\* ------------------------------------------- a batch whose awaits all return
\* Every await of batchUpload and of its apiRequest chains returns: the storage
\* calls, fetch (which settles with a response or a network error) and the back-off
\* timer.  A logout request may be served at any await of the batch.
NextLive ==
  \/ Next
  \/ LogoutStart
  \/ LogoutDone

SpecLive == InitBusy /\ [][NextLive]_vars /\ WF_vars(Next)

\* --------------------------------- the original worker (legacy background.js)
LegacyMsgNotAuthenticated == "Not authenticated"
LegacyMsgAuthRequired == "Authentication required"
LegacyMsgConflict == "Conflict - file may already exist"

\* `API request failed: ${response.status} ${response.statusText}`
LegacyApiFailedMessage(status) ==
  CASE status = 403 -> "API request failed: 403 Forbidden"
    [] status = 404 -> "API request failed: 404 Not Found"
    [] status = 500 -> "API request failed: 500 Internal Server Error"
    [] OTHER -> "API request failed"

\* The error thrown in the try block of the legacy apiRequest for a response that
\* ends the invocation (status 0: fetch itself rejected).
LegacyThrownInTry(resp) ==
  CASE resp.status = 0 -> MsgFailedToFetch
    [] resp.status = 404 -> MsgNotFound
    [] resp.status = 409 -> LegacyMsgConflict
    [] OTHER -> LegacyApiFailedMessage(resp.status)

\* error.message.includes('Authentication'), case sensitive
LegacyIncludesAuthentication(msg) == msg = LegacyMsgAuthRequired

\* error.message.includes('404')
Includes404(msg) == msg = LegacyApiFailedMessage(404)

\* throw inside the try block and the catch block after it: the call is made again
\* after the back-off unless the ceiling is reached or the message names
\* 'Authentication'.
LegacyThrown(c, msg, status) ==
  IF BelowRetryCeiling(c.retries) /\ ~LegacyIncludesAuthentication(msg)
  THEN [c EXCEPT !.pc = "sleep", !.sleepMs = BackoffDelay(c.retries), !.cause = "catch"]
  ELSE Settled(c, Rejected(msg, status))

\* apiRequest(endpoint, options, r) up to its first await: without a token in
\* memory it throws 'Not authenticated' before its try block.
LegacyInvoked(c, r, tok) ==
  IF tok = NoToken
  THEN Settled([c EXCEPT !.retries = r], Rejected(LegacyMsgNotAuthenticated, 0))
  ELSE Fetching([c EXCEPT !.retries = r], tok)

\* The chain after its fetch has settled with resp.
LegacyAfterResponse(c, resp) ==
  IF resp.status = 401 THEN [c EXCEPT !.pc = "remove"]
  ELSE IF resp.status \in {0, 404, 409}
  THEN LegacyThrown(c, LegacyThrownInTry(resp), resp.status)
  ELSE IF StatusRetry(resp, c.retries)
  THEN [c EXCEPT !.pc = "sleep", !.sleepMs = BackoffDelay(c.retries), !.cause = "status"]
  ELSE IF ~Ok(resp) THEN LegacyThrown(c, LegacyThrownInTry(resp), resp.status)
  ELSE Settled(c, Resolved(resp))

\* What the legacy worker never touches.
legacyFrame == <<sessionVars, reply, gets, puts, evictedAt, inflight, handlerVars,
                 lost, page>>

\* await fetch(...) settles.
LegacyApiResponse ==
  /\ chain["batchUpload"].pc = "fetch"
  /\ \E a \in Answers(chain["batchUpload"].req) :
       /\ remote' = IF a.fault THEN remote ELSE RemoteAfter(chain["batchUpload"].req)
       /\ faults' = IF a.fault THEN faults + 1 ELSE faults
       /\ authToken' = IF a.resp.status = 401 THEN NoToken ELSE authToken
       /\ chain' = [chain EXCEPT !["batchUpload"] = LegacyAfterResponse(@, a.resp)]
       /\ seen404' = (seen404 \/ (chain["batchUpload"].req.method = "GET"
                                   /\ a.resp.status = 404))
  /\ UNCHANGED <<storedToken, batchVars, existsErr, legacyFrame>>

\* await chrome.storage.local.remove('github_token') returns, then the throw.
LegacyApiRemoved ==
  /\ chain["batchUpload"].pc = "remove"
  /\ storedToken' = NoToken
  /\ chain' = [chain EXCEPT !["batchUpload"] = LegacyThrown(@, LegacyMsgAuthRequired, 401)]
  /\ UNCHANGED <<authToken, envVars, batchVars, existsErr, seen404, legacyFrame>>

\* The back-off timer fires: return apiRequest(endpoint, options, retries + 1).
LegacyApiWake ==
  /\ chain["batchUpload"].pc = "sleep"
  /\ chain' = [chain EXCEPT !["batchUpload"] = LegacyInvoked(@, @.retries + 1, authToken)]
  /\ UNCHANGED <<authVars, envVars, batchVars, existsErr, seen404, legacyFrame>>

\* getFileContent's catch: the error is rethrown unless its message includes '404'.
LegacyGetFileContentThrows(res) == ~res.ok /\ ~Includes404(res.error)

\* The top of the for loop at index i with the lists res and errs, or, past the
\* last file, the return of { results, errors }.
LegacyLoopAt(i, res, errs) ==
  /\ idx' = i /\ results' = res /\ errors' = errs
  /\ existsErr' = "" /\ seen404' = FALSE
  /\ IF i \in DOMAIN files
     THEN /\ bpc' = "exists"
          /\ chain' = [chain EXCEPT !["batchUpload"] =
                         LegacyInvoked([IdleChain EXCEPT !.req = GetRequest(files[i])],
                                       0, authToken)]
          /\ UNCHANGED returned
     ELSE /\ bpc' = "returned"
          /\ chain' = [chain EXCEPT !["batchUpload"] = IdleChain]
          /\ returned' = <<[results |-> res, errors |-> errs]>>

\* The legacy batchUpload is called.
LegacyBatchUpload ==
  /\ bpc = "idle"
  /\ LegacyLoopAt(1, <<>>, <<>>)
  /\ UNCHANGED <<authVars, envVars, files, existingFile, legacyFrame>>

\* await getFileContent(...) settles: uploadFile is called, or the catch block of
\* the loop body records the error and the loop goes on.
LegacyAfterGet ==
  /\ bpc = "exists" /\ Awaited(chain["batchUpload"])
  /\ LET res == chain["batchUpload"].result IN
     IF LegacyGetFileContentThrows(res)
     THEN /\ LegacyLoopAt(idx + 1, results,
                          Append(errors, [file |-> files[idx], status |-> "error",
                                          error |-> res.error]))
          /\ UNCHANGED existingFile
     ELSE /\ existingFile' = GetFileContentValue(res)
          /\ existsErr' = res.error
          /\ bpc' = "upload"
          /\ chain' = [chain EXCEPT !["batchUpload"] =
                         LegacyInvoked([IdleChain EXCEPT
                                          !.req = PutRequest(files[idx], existingFile')],
                                       0, authToken)]
          /\ UNCHANGED <<idx, results, errors, returned, seen404>>
  /\ UNCHANGED <<authVars, envVars, files, legacyFrame>>

\* await uploadFile(...) settles: the file is pushed to results, or the catch block
\* pushes it to errors; the loop goes on.
LegacyAfterPut ==
  /\ bpc = "upload" /\ Awaited(chain["batchUpload"])
  /\ LET res == chain["batchUpload"].result IN
     IF res.ok
     THEN LegacyLoopAt(idx + 1,
                       Append(results, [file |-> files[idx], status |-> "success",
                                        result |-> res.sha]),
                       errors)
     ELSE LegacyLoopAt(idx + 1, results,
                       Append(errors, [file |-> files[idx], status |-> "error",
                                       error |-> res.error]))
  /\ UNCHANGED <<authVars, envVars, files, existingFile, legacyFrame>>

\* The legacy worker with a token in memory or not, serving one batchUpload.
NextLegacy ==
  \/ LegacyBatchUpload
  \/ LegacyAfterGet
  \/ LegacyAfterPut
  \/ LegacyApiResponse
  \/ LegacyApiRemoved
  \/ LegacyApiWake

SpecLegacy == Init /\ [][NextLegacy]_vars

TypeOK ==
  /\ authToken \in Tokens \cup {NoToken, NewToken}
  /\ storedToken \in Tokens \cup {NoToken, NewToken}
  /\ bpc \in {"idle", "init_save", "exists", "upload", "save_ok", "save_err",
              "final_save", "returned"}
  /\ \A p \in Procs :
       /\ chain[p].pc \in {"idle", "load", "fetch", "remove", "sleep", "done"}
       /\ chain[p].retries \in 0..MAX_RETRIES
  /\ faults \in 0..MaxFaults
  /\ page.section \in {"closed", "upload", "progress", "results"}
  /\ page.uploadInProgress \in BOOLEAN /\ page.origin \in BOOLEAN
  /\ popup = "closed" => page = NoPage

\* ================================================================ claims
BatchChain == chain["batchUpload"]
RepoChain == chain["getRepos"]
FilesOf(list) == [i \in DOMAIN list |-> list[i].file]
Recorded == Len(results) + Len(errors)

\* The files of fl at the positions in S, in order.
RECURSIVE Restrict(_, _)
Restrict(fl, S) ==
  IF fl = <<>> THEN <<>>
  ELSE LET n == Len(fl)
           front == Restrict(SubSeq(fl, 1, n - 1), S)
       IN IF n \in S THEN Append(front, fl[n]) ELSE front

\* C1: when batchUpload returns, len(results) + len(errors) = len(files), the files
\* of results and of errors are two complementary subsequences of the input list
\* (every file in exactly one of them, in input order), and the loop never ends
\* before the last file whatever a file failed with.
C1_BatchPartition ==
  /\ bpc \in {"final_save", "returned"} => Recorded = Len(files)
  /\ bpc \in {"exists", "upload"} => Recorded = idx - 1
  /\ bpc \in {"save_ok", "save_err"} => Recorded = idx
  /\ bpc = "returned" =>
       LET out == returned[1] IN
       /\ Len(out.results) + Len(out.errors) = Len(files)
       /\ \E S \in SUBSET DOMAIN files :
            /\ FilesOf(out.results) = Restrict(files, S)
            /\ FilesOf(out.errors) = Restrict(files, DOMAIN files \ S)

\* C1 witness: a returned batch of three files whose first file failed on a
\* permission error and whose later files were uploaded.
C1_Witness ==
  /\ bpc = "returned" /\ Len(files) = 3
  /\ Len(returned[1].errors) = 1 /\ Len(returned[1].results) = 2
  /\ returned[1].errors[1].file = files[1]
  /\ returned[1].errors[1].error = MsgPermission

\* C2: at every await point of a run, the state getUploadStatus returns has
\* current = len(results) + len(errors) and total = len(files).
C2_StatusConsistent ==
  bpc # "idle" =>
    LET st == GetUploadStatus.state IN
    /\ st.current = Len(st.results) + Len(st.errors)
    /\ st.total = Len(files)

\* C2 witness: a status read while the third file's request is in flight, one file
\* uploaded and one failed before it.
C2_Witness ==
  /\ bpc = "exists" /\ BatchChain.pc = "fetch" /\ idx = 3
  /\ Len(GetUploadStatus.state.results) = 1 /\ Len(GetUploadStatus.state.errors) = 1
  /\ GetUploadStatus.state.current = 2

\* C3: the upload request of a file carries no sha when its existence-check resolved
\* absent, and exactly the sha the existence-check resolved (the sha the branch holds,
\* so the request is an update, answered 200, not a create, answered 201) otherwise.
C3_ShaCarried ==
  bpc = "upload" =>
    /\ BatchChain.req.method = "PUT" /\ BatchChain.req.path = files[idx]
    /\ existsErr # "" => BatchChain.req.sha = 0
    /\ existsErr = "" =>
         /\ BatchChain.req.sha # 0
         /\ BatchChain.pc = "fetch" => BatchChain.req.sha = remote[files[idx]]
    /\ (BatchChain.pc = "done" /\ BatchChain.result.ok) =>
         (BatchChain.result.status = 200 <=> existsErr = "")

\* C3 witness: an update with the resolved sha 1 has been accepted.
C3_Witness ==
  /\ bpc = "upload" /\ BatchChain.pc = "done" /\ BatchChain.result.ok
  /\ existsErr = "" /\ BatchChain.req.sha = 1 /\ BatchChain.result.status = 200

LastError == errors[Len(errors)]

\* C4 (as claimed): once the content read of the current file, a path the branch
\* does not hold, has been answered 404, the existence-check returns null from that
\* "Resource not found" error, the file goes on to a PUT without sha, and its
\* existence-check puts nothing in errors.
C4_NotFoundIsAbsent ==
  (seen404 /\ remote[files[idx]] = 0 /\ bpc \in {"upload", "save_err"}) =>
    /\ existsErr = MsgNotFound
    /\ bpc = "upload" => (BatchChain.req.method = "PUT" /\ BatchChain.req.sha = 0)

\* The messages for which getFileContent returns null instead of failing.
C5_AbsentMessages ==
  {MsgNotFound, "API request failed: 409 - Not Found", "API request failed: 500 - Not Found"}

\* C5: when the existence-check of a file fails (its apiRequest chain rejects with a
\* message that does not indicate "not found": rate limit, permission, expired or
\* missing token, server error, network failure), no PUT is issued for the file, the
\* file is recorded in errors with that failure, current counts it, and the loop
\* goes on to the next file.
C5_ExistenceFailureInv ==
  (bpc \in {"upload", "save_ok", "save_err"} /\ existsErr \notin ({""} \cup C5_AbsentMessages)) =>
    /\ bpc = "save_err" /\ puts = 0
    /\ LastError = [file |-> files[idx], status |-> "error", error |-> existsErr]
    /\ GetUploadStatus.state.current = idx
    /\ GetUploadStatus.state.errors = errors
C5_LoopGoesOn ==
  bpc = "save_err" =>
    /\ idx' = idx + 1 /\ results' = results /\ errors' = errors
    /\ bpc' = IF idx < Len(files) THEN "exists" ELSE "final_save"
C5_ExistenceFailureSkipsUpload == []C5_ExistenceFailureInv /\ [][C5_LoopGoesOn]_vars

\* C5 witness: of [a.txt, b.txt, c.txt], a.txt is uploaded and b.txt's existence-check
\* has failed on the rate limit; b.txt is recorded without any PUT.
C5_Witness ==
  /\ files = <<"a.txt", "b.txt", "c.txt">> /\ idx = 2 /\ bpc = "save_err"
  /\ existsErr = MsgRateLimit /\ puts = 0
  /\ FilesOf(results) = <<"a.txt">> /\ FilesOf(errors) = <<"b.txt">>

\* C6: after a 401 during file k the token is gone from memory and, once the removal
\* has returned, from storage; file k is recorded in errors; every later file fails
\* "Not authenticated" at its existence-check with no HTTP request issued; the batch
\* still records every file.
C6_EvictionThenFastFail ==
  evictedAt > 0 =>
    /\ authToken = NoToken
    /\ (idx > evictedAt \/ BatchChain.pc # "remove") => storedToken = NoToken
    /\ (idx = evictedAt /\ bpc \in {"save_ok", "save_err"}) =>
         (bpc = "save_err" /\ LastError.file = files[idx] /\ LastError.error = MsgAuthExpired)
    /\ (idx > evictedAt /\ idx <= Len(files)) =>
         /\ gets = 0 /\ puts = 0 /\ BatchChain.attempts = 0
         /\ bpc \in {"exists", "save_err"}
         /\ bpc = "save_err" =>
              (LastError.file = files[idx] /\ LastError.error = MsgNotAuthenticated)
    /\ bpc \in {"final_save", "returned"} =>
         (Recorded = Len(files) /\ Len(errors) >= Len(files) - evictedAt + 1)

\* C6 witness: the first file met a 401 and the third file has failed fast.
C6_Witness ==
  /\ evictedAt = 1 /\ idx = 3 /\ bpc = "save_err" /\ gets = 0
  /\ LastError.error = MsgNotAuthenticated /\ Len(errors) = 3

\* ------------------------------------------- claims about one call chain
Statuses == [i \in DOMAIN RepoChain.hist |-> RepoChain.hist[i].status]
Three500 == Len(Statuses) >= 3 /\ SubSeq(Statuses, 1, 3) = <<500, 500, 500>>

\* C7 (as claimed): a call whose first three attempts were answered 500 has failed,
\* the retries being exhausted before a fourth attempt could be answered 200.
C7_FailsAfterThree500 ==
  Three500 => (RepoChain.pc = "done" /\ ~RepoChain.result.ok)

\* C7 (amended): MAX_RETRIES = 3 allows three retries, four attempts.  After three
\* 500s the call is still running; it succeeds when the fourth attempt is answered
\* 200 and fails "API request failed: 500" only when the fourth is answered 500 too,
\* so a call that failed on a 500 has made exactly four attempts.
C7_SucceedsOnFourthAttempt ==
  /\ (Three500 /\ Len(Statuses) = 3) =>
       (RepoChain.pc \in {"sleep", "load", "fetch"} /\ RepoChain.retries \in {2, 3})
  /\ Statuses = <<500, 500, 500, 200>> => (RepoChain.pc = "done" /\ RepoChain.result.ok)
  /\ Statuses = <<500, 500, 500, 500>> =>
       /\ RepoChain.pc = "done" /\ ~RepoChain.result.ok
       /\ RepoChain.result.error \in {ApiFailedMessage(500, BodyPlain),
                                      ApiFailedMessage(500, BodyNotFound)}
  /\ (RepoChain.pc = "done" /\ RepoChain.result.status = 500) =>
       RepoChain.attempts = MAX_RETRIES + 1

\* C7 witness: three 500s and a 200 have been answered and the call has succeeded.
C7_Witness ==
  /\ Statuses = <<500, 500, 500, 200>> /\ RepoChain.pc = "done" /\ RepoChain.result.ok
  /\ reply = <<[success |-> TRUE, error |-> ""]>>

\* C8 (as claimed): a 404 or 403 response ends the call at once: it is the chain's
\* last response, no back-off follows it, and the call has failed.
C8_NoRetryOn404Or403 ==
  \A i \in DOMAIN RepoChain.hist :
    RepoChain.hist[i].status \in {404, 403} =>
      /\ RepoChain.hist[i].delay = 0
      /\ i = Len(RepoChain.hist)
      /\ RepoChain.pc = "done" /\ ~RepoChain.result.ok

\* C9: whatever mix of retriable statuses and network failures is answered, a call
\* chain makes at most MAX_RETRIES + 1 = 4 fetch calls; the one counter grows by one
\* per retry of either kind, and no outer invocation is left to catch (and retry)
\* the failure of a nested one.
C9_AtMostFourAttempts ==
  /\ RepoChain.attempts <= MAX_RETRIES + 1
  /\ Len(RepoChain.hist) <= RepoChain.attempts
  /\ RepoChain.frames = <<>>
  /\ RepoChain.pc = "fetch" =>
       (RepoChain.retries = Len(RepoChain.hist) /\ RepoChain.attempts = RepoChain.retries + 1)
  /\ RepoChain.pc \in {"sleep", "remove"} =>
       (RepoChain.retries = Len(RepoChain.hist) - 1 /\ RepoChain.attempts = Len(RepoChain.hist))

\* C9 witness: a chain of four attempts, retried on statuses and on network failures
\* alike, has failed.
C9_Witness ==
  /\ RepoChain.pc = "done" /\ ~RepoChain.result.ok /\ RepoChain.attempts = 4
  /\ Statuses = <<500, 0, 409, 0>>

\* C10: the back-off after the k-th response, i.e. before the k-th retry, is
\* RETRY_DELAY * k (1000, 2000, 3000 ms), for a retry from the status check and for
\* a retry from the catch block alike; every further attempt was preceded by it.
C10_LinearBackoff ==
  /\ \A i \in DOMAIN RepoChain.hist :
       /\ RepoChain.hist[i].delay \in {0, RETRY_DELAY * i}
       /\ i < Len(RepoChain.hist) => RepoChain.hist[i].delay = RETRY_DELAY * i
  /\ RepoChain.pc = "sleep" =>
       /\ RepoChain.sleepMs = RETRY_DELAY * Len(RepoChain.hist)
       /\ RepoChain.sleepMs \in {1000, 2000, 3000}

\* C10 witness: the third back-off, 3000 ms, follows a network failure; the first,
\* 1000 ms, followed a 500.
C10_Witness ==
  /\ RepoChain.pc = "sleep" /\ RepoChain.sleepMs = 3000 /\ RepoChain.cause = "catch"
  /\ Len(RepoChain.hist) = 3
  /\ RepoChain.hist[1] = [status |-> 500, remaining |-> "", delay |-> 1000]
  /\ RepoChain.hist[2] = [status |-> 500, remaining |-> "", delay |-> 2000]
  /\ RepoChain.hist[3] = [status |-> 0, remaining |-> "", delay |-> 3000]

\* C11: a 401 is the last response of its call chain at whatever attempt it comes:
\* no back-off follows it, no further fetch is made, and the chain rejects with
\* "Authentication expired"; a call made with no token in memory or in storage
\* rejects "Not authenticated" without any fetch.
C11_UnauthenticatedFinal ==
  /\ \A i \in DOMAIN RepoChain.hist :
       RepoChain.hist[i].status = 401 =>
         /\ i = Len(RepoChain.hist) /\ RepoChain.hist[i].delay = 0
         /\ RepoChain.pc \in {"remove", "done"} /\ RepoChain.attempts = i
         /\ authToken = NoToken
         /\ RepoChain.pc = "done" =>
              RepoChain.result = Rejected(MsgAuthExpired, 401)
  /\ (authToken = NoToken /\ storedToken = NoToken /\ RepoChain.hist = <<>>) =>
       /\ RepoChain.attempts = 0 /\ RepoChain.pc \in {"idle", "load", "done"}
       /\ RepoChain.pc = "done" => RepoChain.result = Rejected(MsgNotAuthenticated, 0)

\* C11 witness: the second attempt of a call was answered 401 and the call has
\* failed after exactly two fetches.
C11_Witness ==
  /\ Statuses = <<500, 401>> /\ RepoChain.pc = "done" /\ RepoChain.attempts = 2
  /\ RepoChain.result.error = MsgAuthExpired
  /\ reply = <<[success |-> FALSE, error |-> MsgAuthExpired]>>

\* C12 (as claimed): one progress notification per recorded file, the k-th carrying
\* current = k (the files attempted so far, the session's current) and
\* total = len(files), so that the emitted current values are 1, 2, ..., len(files).
C12_ProgressCountsAttempted ==
  /\ bpc \in {"exists", "upload", "save_ok", "save_err"} => Len(sent) = idx - 1
  /\ bpc \in {"final_save", "returned"} => Len(sent) = Len(files)
  /\ \A k \in DOMAIN sent :
       /\ sent[k].file = files[k] /\ sent[k].total = Len(files)
       /\ sent[k].current = k

C14_SecondBatchRejected ==
  /\ second \in {"none", "rejected"}
  /\ bpc \in {"init_save", "exists", "upload", "save_ok", "save_err"} =>
       /\ currentUpload.active /\ currentUpload.total = Len(files)
       /\ currentUpload.results = results /\ currentUpload.errors = errors

\* The states of a batch that still has files to process or to record.
Running == {"init_save", "exists", "upload", "save_ok", "save_err"}

\* C15: a popup opened at any moment of a running batch restores, from its one
\* status read, the progress so far: active, total = len(files), current = the
\* files recorded, the file recorded last, and the results and errors lists as
\* they stand, however many of the earlier notifications were lost.
C15_AttachReadsExactProgress ==
  [][(popup = "closed" /\ popup' = "open" /\ bpc \in Running) =>
       /\ restored' # <<>>
       /\ restored'[1].active
       /\ restored'[1].total = Len(files)
       /\ restored'[1].current = Recorded
       /\ restored'[1].file = IF Recorded = 0 THEN "" ELSE files[Recorded]
       /\ restored'[1].results = results
       /\ restored'[1].errors = errors]_vars

\* C15 witness: the popup was closed while the first two files were recorded, so
\* both notifications were lost; opened during the third file's upload, it shows
\* two files done out of three, one uploaded and one failed.
C15_Witness ==
  /\ popup = "open" /\ restored # <<>> /\ lost = 2 /\ Len(sent) = 2
  /\ bpc = "upload" /\ idx = 3
  /\ restored[1].current = 2 /\ restored[1].total = 3 /\ restored[1].active
  /\ Len(restored[1].results) = 1 /\ Len(restored[1].errors) = 1

\* C16: once batchUpload has returned, the session is inactive, carries a start
\* time and a finish time with finishedAt >= startedAt, holds the very results and
\* errors that were returned, and is the snapshot stored last.
C16_FinalSession ==
  /\ bpc = "final_save" =>
       (~currentUpload.active /\ currentUpload.finishedAt >= currentUpload.startedAt)
  /\ bpc = "returned" =>
       /\ ~currentUpload.active
       /\ currentUpload.startedAt = StartTime
       /\ currentUpload.finishedAt >= currentUpload.startedAt
       /\ currentUpload.results = returned[1].results
       /\ currentUpload.errors = returned[1].errors
       /\ currentUpload.total = Len(files) /\ currentUpload.current = Len(files)
       /\ sessionStore = <<currentUpload>>
       /\ GetUploadStatus.state = currentUpload

\* C16 witness: a batch of three files has returned one result and two errors, two
\* clock ticks after it started.
C16_Witness ==
  /\ bpc = "returned" /\ Len(files) = 3
  /\ Len(returned[1].results) = 1 /\ Len(returned[1].errors) = 2
  /\ currentUpload.finishedAt = currentUpload.startedAt + 2

\* The messages an apiRequest chain can fail with.
ApiMessages ==
  {MsgNotAuthenticated, MsgAuthExpired, MsgNotFound, MsgRateLimit, MsgPermission,
   MsgFailedToFetch} \cup {ApiFailedMessage(st, b) : st \in {409, 500},
                                                      b \in {BodyPlain, BodyNotFound}}

\* C17: a progress message that nobody receives changes nothing in the batch.  The
\* step that sends it leaves results and errors as they are and goes on to the next
\* file (or to the finalisation); every error entry carries a failure of the file's
\* own requests, never a failure of the emission; every file is recorded once, and
\* the lists returned are the recorded ones.
C17_LostInv ==
  /\ lost <= Len(sent)
  /\ \A k \in DOMAIN errors : errors[k].error \in ApiMessages
  /\ bpc \in {"exists", "upload"} => Recorded = idx - 1
  /\ bpc \in {"save_ok", "save_err"} => Recorded = idx
  /\ bpc = "returned" =>
       /\ Recorded = Len(files) /\ Len(sent) = Len(files)
       /\ returned = <<[results |-> results, errors |-> errors]>>
       /\ \A k \in DOMAIN results : remote[results[k].file] >= 1
C17_LostStep ==
  (Len(sent') > Len(sent) /\ ~Delivered) =>
    /\ lost' = lost + 1
    /\ results' = results /\ errors' = errors /\ idx' = idx + 1
    /\ bpc' = IF idx < Len(files) THEN "exists" ELSE "final_save"
C17_EmissionFailureHarmless == []C17_LostInv /\ [][C17_LostStep]_vars

\* C17 witness: a batch of three files run with the popup closed throughout has
\* returned two results and one error; none of its three messages was received.
C17_Witness ==
  /\ bpc = "returned" /\ Len(files) = 3 /\ lost = 3 /\ popup = "closed"
  /\ Len(returned[1].results) = 2 /\ Len(returned[1].errors) = 1

\* The second run of a batch, as long as no failure has been injected into it.
SoundRerun == rerun # <<>> /\ faults = rerun[1]

\* C18: in the second run of a batch whose first run uploaded every file, every
\* existence-check resolves to the sha the branch holds, every upload is sent with
\* that sha and accepted as an update (200, not 201), and nothing is recorded in
\* errors, a conflict least of all.
C18_RerunUpdates ==
  SoundRerun =>
    /\ errors = <<>>
    /\ (bpc = "exists" /\ BatchChain.pc = "done") =>
         (BatchChain.result.ok /\ BatchChain.result.sha = remote[files[idx]]
          /\ BatchChain.result.sha >= 1)
    /\ bpc = "upload" =>
         /\ ~existingFile.isNull
         /\ BatchChain.req.method = "PUT" /\ BatchChain.req.sha = existingFile.sha
         /\ BatchChain.pc = "fetch" => BatchChain.req.sha = remote[files[idx]]
         /\ BatchChain.pc = "done" =>
              (BatchChain.result.ok /\ BatchChain.result.status = 200)
    /\ bpc = "returned" => Len(results) = Len(files)

\* C18 witness: the second run of a batch of three files has returned three results,
\* the first file now at its second version or later.
C18_Witness ==
  /\ SoundRerun /\ bpc = "returned" /\ Len(files) = 3
  /\ Len(returned[1].results) = 3 /\ returned[1].errors = <<>>
  /\ remote[files[1]] >= 2

\* The paths of the file list, and the results entries after the k-th for its path.
ListedPaths == {files[i] : i \in DOMAIN files}
LaterUploads(k) == {j \in DOMAIN results : j > k /\ results[j].file = results[k].file}
\* 1 while an accepted upload of path p waits to be recorded in results, else 0.
AcceptedUnrecorded(p) ==
  IF bpc = "upload" /\ BatchChain.pc = "done" /\ BatchChain.result.ok /\ files[idx] = p
  THEN 1 ELSE 0

\* C19: nothing is rolled back.  The batch asks only for GET and PUT on the path of
\* the file its loop is at.  The content at a path changes only when the PUT of the
\* file the loop is at, for that very path, is accepted; a failing file changes
\* nothing.  So the blob an upload has written stays on the branch until the batch
\* returns (unless the list names the same path again and uploads it again), and
\* paths outside the list stay as they were.
C19_UploadedInv ==
  /\ BatchChain.pc # "idle" =>
       (BatchChain.req.method \in {"GET", "PUT"} /\ BatchChain.req.path = files[idx])
  /\ \A k \in DOMAIN results :
       remote[results[k].file] = results[k].result + Cardinality(LaterUploads(k))
                                   + AcceptedUnrecorded(results[k].file)
  /\ \A p \in Paths \ ListedPaths : remote[p] = IF p = OtherPath THEN 1 ELSE 0
C19_WriteStep ==
  \A p \in Paths :
    remote'[p] # remote[p] =>
      /\ bpc = "upload" /\ p = files[idx] /\ BatchChain.req.method = "PUT"
      /\ remote'[p] = remote[p] + 1
      /\ chain'["batchUpload"].result = Resolved(PutAnswer(BatchChain.req))
C19_NoRollback == []C19_UploadedInv /\ [][C19_WriteStep]_vars

\* C19 witness: of two different files the first was uploaded and the second has
\* failed; the branch still holds what the first upload wrote.
C19_Witness ==
  /\ bpc = "returned" /\ Len(files) = 2 /\ files[1] # files[2]
  /\ FilesOf(results) = <<files[1]>> /\ FilesOf(errors) = <<files[2]>>
  /\ remote[files[1]] = results[1].result /\ remote[files[1]] >= 1

\* The files whose processing starts after the credential handler has completed.
StartedAfterChange == bpc \in Running /\ idx \in DOMAIN files /\ idx > cred.at

\* C20 (as claimed): a file whose processing starts after a logout has completed
\* issues no HTTP request and is recorded in errors as "Not authenticated"; the
\* requests of a file whose processing starts after a login has completed carry the
\* new token (no 401 having cleared the token in this batch).
C20_CredentialChangeTakesEffect ==
  /\ (cred.pc = "logout_done" /\ StartedAfterChange) =>
       /\ gets = 0 /\ puts = 0 /\ BatchChain.pc # "fetch"
       /\ bpc \in {"exists", "save_err"}
       /\ bpc = "save_err" =>
            LastError = [file |-> files[idx], status |-> "error",
                         error |-> MsgNotAuthenticated]
  /\ (cred.pc = "login_done" /\ StartedAfterChange /\ evictedAt = 0) =>
       /\ BatchChain.pc = "fetch" => BatchChain.req.token = NewToken
       /\ bpc = "save_err" => LastError.error # MsgNotAuthenticated

\* C21: a batchUpload call that has begun processes every file of its list, returns
\* and leaves the session with active = false, provided each of its awaits returns;
\* a logout served meanwhile does not stop it.
C21_RunsToCompletion ==
  (bpc = "init_save") ~>
    (bpc = "returned" /\ Recorded = Len(files) /\ ~currentUpload.active)

C21_Witness ==
  /\ bpc = "returned" /\ Len(files) = MaxFiles /\ Recorded = MaxFiles
  /\ cred.pc = "logout_done" /\ cred.at = 1
  /\ Len(errors) = MaxFiles - 1 /\ ~currentUpload.active

CheckChain == chain["checkAuth"]
Saw401(c) == \E i \in DOMAIN c.hist : c.hist[i].status = 401

\* C22 (as claimed): while a checkAuth request is served (no logout is), the token
\* in memory and the stored token are cleared only if a response had status 401; a
\* user-info request that fails otherwise (404, 403, 409, 5xx, network failure)
\* leaves both unchanged.
C22_OnlyLogoutOr401Clears ==
  [][ /\ (authToken # NoToken /\ authToken' = NoToken) => Saw401(CheckChain')
      /\ (storedToken # NoToken /\ storedToken' = NoToken) => Saw401(CheckChain') ]_vars

\* C23 (as claimed): a response with status 409 makes the apiRequest call fail at
\* once with the conflict failure: it is the call's last response, no back-off
\* follows it, and the call is rejected with status 409.
C23_ConflictFails ==
  \A i \in DOMAIN RepoChain.hist :
    RepoChain.hist[i].status = 409 =>
      /\ i = Len(RepoChain.hist) /\ RepoChain.hist[i].delay = 0
      /\ RepoChain.pc = "done" /\ ~RepoChain.result.ok /\ RepoChain.result.status = 409

C25_ExponentialBackoff ==
  /\ \A i \in DOMAIN RepoChain.hist :
       RepoChain.hist[i].delay \in {0, RETRY_DELAY * 2^(i - 1)}
  /\ RepoChain.pc = "sleep" => RepoChain.sleepMs = RETRY_DELAY * 2^(Len(RepoChain.hist) - 1)

\* C26 (as claimed): after Stop, no file of the batch that had not been started is
\* uploaded (no request is issued for it); while the upload is paused, no file
\* beyond the one in progress at the click is started.
C26_StopAndPauseHold ==
  /\ (ui.stopped /\ idx > ui.at /\ idx \in DOMAIN files) => (gets = 0 /\ puts = 0)
  /\ (ui.uploadPaused /\ idx > ui.at /\ idx \in DOMAIN files) => (gets = 0 /\ puts = 0)

\* The results entries of earlier occurrences of the current file's path.
EarlierUploads == {k \in DOMAIN results : results[k].file = files[idx]}

\* C27: every file's upload follows a lookup made for that very file, and uses its
\* outcome only: when the lookup succeeded the request carries the sha the lookup
\* returned, which for a path the batch has uploaded before is the sha its latest
\* earlier upload produced (the request is then accepted as an update, 200); when
\* the lookup resolved absent it carries none, whatever an earlier file had.
C27_FreshLookup ==
  bpc = "upload" =>
    /\ gets >= 1
    /\ existsErr # "" => (existingFile.isNull /\ BatchChain.req.sha = 0)
    /\ existsErr = "" =>
         /\ ~existingFile.isNull /\ existingFile.sha = remote[files[idx]] - AcceptedUnrecorded(files[idx])
         /\ BatchChain.req.sha = existingFile.sha
         /\ EarlierUploads # {} =>
              /\ BatchChain.req.sha = results[Max(EarlierUploads)].result
              /\ (BatchChain.pc = "done" /\ BatchChain.result.ok) =>
                   BatchChain.result.status = 200

\* C27 witness: a.txt, absent before the batch and listed twice, was created by its
\* first occurrence (sha 1) and is updated by the second, whose request carries 1.
C27_Witness ==
  /\ Len(files) >= 2 /\ files[1] = files[2] /\ idx = 2 /\ bpc = "upload"
  /\ results # <<>> /\ results[1].result = 1
  /\ BatchChain.pc = "done" /\ BatchChain.result.ok /\ BatchChain.result.status = 200
  /\ BatchChain.req.sha = 1 /\ remote[files[1]] = 2

\* C28: the commit message in the body of every file's PUT is the batch-level
\* message when that is given and not empty, and "Upload " followed by the file's
\* own path when it is empty or missing.
C28_CommitMessage ==
  (BatchChain.pc # "idle" /\ BatchChain.req.method = "PUT") =>
    /\ (message.given /\ message.text # "") =>
         BatchChain.req.message = [text |-> message.text, path |-> ""]
    /\ (~message.given \/ message.text = "") =>
         BatchChain.req.message = [text |-> "Upload ", path |-> files[idx]]

\* C28 witness: with the empty message, the second file b.txt is being uploaded with
\* "Upload b.txt".
C28_Witness ==
  /\ message = [given |-> TRUE, text |-> ""] /\ Len(files) >= 2 /\ idx = 2
  /\ files[2] = "b.txt"
  /\ bpc = "upload" /\ BatchChain.pc = "fetch"
  /\ BatchChain.req.message = [text |-> "Upload ", path |-> "b.txt"]

\* Of the first k notifications, those reporting a success.
SuccessesUpTo(k) == Cardinality({i \in 1..k : sent[i].status = "success"})

\* Does session state st hold the outcome that the k-th notification reports?
HoldsOutcome(st, k) ==
  LET n == SuccessesUpTo(k) IN
  IF sent[k].status = "success"
  THEN Len(st.results) >= n /\ st.results[n].file = sent[k].file
       /\ st.results[n].status = "success"
  ELSE Len(st.errors) >= k - n
       /\ st.errors[k - n] = [file |-> sent[k].file, status |-> "error",
                               error |-> sent[k].error]

\* C29: once the notification of the k-th file has been emitted, the answer to
\* getUploadStatus and the stored snapshot both have current >= k and hold the
\* k-th file's outcome; the notification is about files[k].
C29_UpdatedBeforeNotified ==
  \A k \in DOMAIN sent :
    /\ sent[k].file = files[k]
    /\ GetUploadStatus.state.current >= k
    /\ HoldsOutcome(GetUploadStatus.state, k)
    /\ sessionStore # <<>> /\ sessionStore[1].current >= k
    /\ HoldsOutcome(sessionStore[1], k)

\* C29 witness: the second file's notification, an error, has just been emitted to
\* an open popup after a success; the status read gives current = 2.
C29_Witness ==
  /\ Len(sent) = 2 /\ sent[1].status = "success" /\ sent[2].status = "error"
  /\ popup = "open" /\ bpc = "exists" /\ idx = 3
  /\ GetUploadStatus.state.current = 2 /\ GetUploadStatus.state.active
  /\ sessionStore[1].current = 2

IsPrefix(a, b) == Len(a) <= Len(b) /\ a = SubSeq(b, 1, Len(a))

\* C30 (as claimed): with a second batchUpload call overlapping the first, the state
\* getUploadStatus returns always describes one of the two batches: total, results
\* and errors are those of the same call, current = len(results) + len(errors) <=
\* total, and active is true as long as the first call has files to process.
C30_OverlapConsistent ==
  LET st == GetUploadStatus.state IN
  bpc # "idle" =>
    /\ st.current = Len(st.results) + Len(st.errors)
    /\ st.current <= st.total
    /\ \/ st.total = Len(files) /\ IsPrefix(st.results, results) /\ IsPrefix(st.errors, errors)
       \/ st.total = 0 /\ st.results = <<>> /\ st.errors = <<>>
    /\ (bpc \in Running /\ Recorded < Len(files)) => st.active

\* C31 (as claimed): once a logout has completed, or the removal that follows a 401
\* has returned, the token in memory and the stored token are both absent and stay
\* so (no login being served), whatever loadStoredToken call was pending meanwhile;
\* a file started after a completed logout sends no request.
C31_EvictionAtomic ==
  /\ cred.pc = "logout_done" => (authToken = NoToken /\ storedToken = NoToken)
  /\ (cred.pc = "logout_done" /\ StartedAfterChange) => BatchChain.pc # "fetch"
  /\ (cred.pc = "none" /\ evictedAt # 0 /\ BatchChain.pc # "remove") =>
       (authToken = NoToken /\ storedToken = NoToken)

\* The open popup attached itself to a batch that was running when it opened.
Reattached == popup = "open" /\ restored # <<>>

\* C32 (as claimed): a popup that re-attached to an active batch has left the
\* in-progress view and shows the final results once batchUpload has returned.
C32_ReattachedSeesCompletion ==
  (Reattached /\ bpc = "returned") =>
    (page.section = "results" /\ ~page.uploadInProgress)

Count(list, e) == Cardinality({i \in DOMAIN list : list[i] = e})
Entries(list) == {list[i] : i \in DOMAIN list}

\* What the log of a popup should list: the recorded outcomes of the batch.
SessionLog ==
  [i \in DOMAIN results |-> [file |-> results[i].file, status |-> "success"]]
  \o [i \in DOMAIN errors |-> [file |-> errors[i].file, status |-> "error"]]

\* C33 (as claimed): whenever the batch is between two files (every recorded file
\* has had its notification sent), the log of a re-attached popup lists every
\* recorded file exactly as often as the batch recorded it: none missing, none twice.
C33_LogExactlyOnce ==
  (Reattached /\ bpc \in {"exists", "upload", "final_save", "returned"}) =>
    \A e \in Entries(page.logList) \cup Entries(SessionLog) :
      Count(page.logList, e) = Count(SessionLog, e)

\* C34: the session lifecycle of batches that do not overlap.  active is true
\* exactly while a batchUpload call is between its session initialisation and its
\* finalisation; finishedAt is null (0) whenever active is true; current never
\* decreases within a batch; after the finalisation no field of the session changes
\* until the next batchUpload call starts.
C34_LifecycleInv ==
  /\ currentUpload.active <=> bpc \in Running
  /\ currentUpload.active => currentUpload.finishedAt = 0
C34_LifecycleStep ==
  /\ (bpc \in Running /\ bpc' \in Running \cup {"final_save"}) =>
       currentUpload'.current >= currentUpload.current
  /\ (bpc \in {"final_save", "returned"} /\ bpc' \in {"final_save", "returned"}) =>
       currentUpload' = currentUpload
C34_SessionLifecycle == []C34_LifecycleInv /\ [][C34_LifecycleStep]_vars

\* C34 witness: the second of two batches over the same three files has returned
\* with one file failed; its session is finalised with current = 3 and a
\* finishedAt of its own.
C34_Witness ==
  /\ rerun # <<>> /\ bpc = "returned" /\ Len(files) = 3 /\ Len(errors) >= 1
  /\ ~currentUpload.active /\ currentUpload.current = 3
  /\ currentUpload.finishedAt >= currentUpload.startedAt
  /\ currentUpload.finishedAt # 0

\* C35 (as claimed): an authenticateWithPAT attempt whose token failed validation
\* has had no effect on the credential of other operations: no request of the batch
\* running meanwhile carries the unvalidated token, the stored credential is not
\* replaced by it, and a request of a file started after the failed attempt
\* carries the stored credential.
C35_FailedLoginHasNoEffect ==
  cred.pc = "login_failed" =>
    /\ BatchChain.pc = "fetch" => BatchChain.req.token # NewToken
    /\ storedToken # NewToken
    /\ (StartedAfterChange /\ BatchChain.pc = "fetch") =>
         BatchChain.req.token = storedToken

\* C36: a batch of n files issues at most 8 n HTTP requests.  The loop takes the
\* files one by one, each once (idx goes from 1 to n in steps of one); for the file
\* it is at there is at most one existence-check chain and at most one upload chain
\* (the GET and PUT requests of the file are the attempts of the one chain
\* running), each of at most MAX_RETRIES + 1 = 4 attempts, hence at most 8 requests
\* per file; the upload chain is started only after the existence check has ended
\* with a sha or with absent.
C36_FileBudget ==
  /\ gets <= MAX_RETRIES + 1 /\ puts <= MAX_RETRIES + 1
  /\ gets + puts <= 2 * (MAX_RETRIES + 1)
  /\ bpc = "exists" => (gets = BatchChain.attempts /\ puts = 0)
  /\ bpc = "upload" => puts = BatchChain.attempts
  /\ bpc \notin {"exists", "upload"} => BatchChain.pc = "idle"
  /\ (gets > 0 \/ puts > 0) => idx \in DOMAIN files
  /\ puts > 0 =>
       /\ existsErr = "" \/ IndicatesNotFound(existsErr)
       /\ existsErr = "" => existingFile = Null \/ existingFile.sha >= 1
       /\ IndicatesNotFound(existsErr) => existingFile = Null
C36_OneFileAtATime ==
  /\ idx' \in {idx, idx + 1}
  /\ (gets' < gets \/ puts' < puts) => idx' = idx + 1
  /\ (gets' > gets \/ puts' > puts) =>
       (gets' - gets) + (puts' - puts) = 1 \/ idx' = idx + 1
C36_RequestBudget == []C36_FileBudget /\ [][C36_OneFileAtATime]_vars

\* C36 witness: the first file of a batch has used its whole budget, four attempts
\* of the existence check and four of the upload.
C36_Witness ==
  /\ bpc = "upload" /\ idx = 1 /\ gets = MAX_RETRIES + 1 /\ puts = MAX_RETRIES + 1
  /\ BatchChain.pc = "fetch"

\* C37 (as claimed): in the original worker, when the contents request of a file
\* has ended with status 404, getFileContent returns null and batchUpload goes on
\* to upload the file as a new one; no error is recorded for it.
C37_LegacyAbsentIsUploaded ==
  [][(bpc = "exists" /\ Awaited(BatchChain) /\ BatchChain.result.status = 404) =>
       /\ bpc' = "upload" /\ existingFile' = Null
       /\ BatchChain'.req.method = "PUT" /\ BatchChain'.req.sha = 0
       /\ errors' = errors ]_vars

====
